---- MODULE Spec2Model ----
(***************************************************************************)
(* Model of the MPI log analyser of "Task 1/t1.py": one coordinator        *)
(* (rank 0) and size-1 workers.  The coordinator resolves the file list,   *)
(* partitions it with chunk_list, sends one assignment per worker (tag     *)
(* 11), optionally runs a sequential baseline, enters the barrier,         *)
(* analyses its own slice, receives the partial results in rank order      *)
(* (tag 22), folds them with dict_add and prints the report.               *)
(*                                                                         *)
(* Python lists are 0-based, TLA+ sequences 1-based: assignments[r] of the *)
(* source is assignments[r + 1] here.                                      *)
(***************************************************************************)
EXTENDS Integers, Sequences, FiniteSets, TLC

(***************************************************************************)
(* Bounds of the model.                                                    *)
(***************************************************************************)
\* largest communicator size (mpirun -np)
MaxSize == 3
\* largest --count given on the command line (the smallest is -1)
MaxCount == 7
\* largest number of lines of a manifest file
MaxManifest == 2
\* file names that a manifest line or a single-path argument can carry
MaxName == 3
\* largest number of processes of a run of parallel_log_analyser.py
MaxProcs == 4
\* largest name of a .log file in the directory parallel_log_analyser.py lists
MaxLogName == 4
\* largest duration, in clock ticks, that two readings of time.time() give
MaxTime == 1

(***************************************************************************)
(* The file system the run reads.  A file name is a number: name n is the  *)
(* path the pattern gives for {n} = n.  A log file either cannot be opened *)
(* or is a sequence of lines; a line is what LOG_REGEX and strip() make of *)
(* it: whether the regex matches and, if so, the stripped second group.    *)
(***************************************************************************)
LOG_LEVELS == {"DEBUG", "ERROR", "INFO", "WARN"}

ERRORS == "__errors__"

\* a file that open() raises on, and a file that holds the given lines
NoFile == [ok |-> FALSE, lines |-> << >>]

File(lines) == [ok |-> TRUE, lines |-> lines]

Ln(level) == [m |-> TRUE, level |-> level]

Garbage == [m |-> FALSE, level |-> ""]

FileSystem(fname) ==
    CASE fname % 4 = 1 -> File(<<Ln("ERROR"), Ln("ERROR"), Ln("ERROR"), Ln("INFO"), Ln("INFO")>>)
      [] fname % 4 = 2 -> NoFile
      [] fname % 4 = 3 -> File(<<Ln("WARN"), Garbage, Ln("TRACE"), Ln("DEBUG"), Ln("INFO")>>)
      [] OTHER         -> File(<< >>)

(***************************************************************************)
(* Counter() and counts[k] += 1.  A Counter is a function from the keys    *)
(* it holds to their counts.                                               *)
(***************************************************************************)
Counter == [k \in {} |-> 0]

Get(a, k) == IF k \in DOMAIN a THEN a[k] ELSE 0

\* counts[k] += 1.  The argument is evaluated once, before the body, as Python
\* evaluates the arguments of a call: c \in {counts} binds its value.
Incr(counts, k) ==
    CHOOSE v \in {[x \in DOMAIN c \cup {k} |-> IF x = k THEN Get(c, k) + 1 ELSE c[x]] :
                    c \in {counts}} : TRUE

(***************************************************************************)
(* analyse_files, t1.py lines 37-52.                                       *)
(***************************************************************************)
RECURSIVE count_lines(_, _)
count_lines(counts, lines) ==
    CHOOSE v \in {IF a[2] = << >> THEN a[1]
                  ELSE LET line == Head(a[2])
                       IN  count_lines(IF line.m /\ line.level \in LOG_LEVELS
                                       THEN Incr(a[1], line.level)
                                       ELSE a[1],
                                       Tail(a[2])) :
                    a \in {<<counts, lines>>}} : TRUE

\* analyse_one with an except branch that starts the counts afresh
analyse_one_discard(counts, fname) ==
    IF FileSystem(fname).ok
    THEN count_lines(counts, FileSystem(fname).lines)
    ELSE Incr(Counter, ERRORS)

\* one iteration of the loop over file_list: the try block and its except
analyse_one(counts, fname) ==
    IF FileSystem(fname).ok
    THEN count_lines(counts, FileSystem(fname).lines)
    ELSE Incr(counts, ERRORS)

RECURSIVE analyse_from(_, _)
analyse_from(counts, file_list) ==
    CHOOSE v \in {IF a[2] = << >> THEN a[1]
                  ELSE analyse_from(analyse_one(a[1], Head(a[2])), Tail(a[2])) :
                    a \in {<<counts, file_list>>}} : TRUE

analyse_files(file_list) == analyse_from(Counter, file_list)

(***************************************************************************)
(* chunk_list, t1.py lines 54-66.                                          *)
(***************************************************************************)
Slice(lst, start, end) == [j \in 1..(end - start) |-> lst[start + j]]

RECURSIVE chunk_loop(_, _, _, _, _, _)
chunk_loop(lst, n_parts, q, r, i, start) ==
    IF i >= n_parts THEN << >>
    ELSE LET end == start + q + (IF i < r THEN 1 ELSE 0)
         IN  <<Slice(lst, start, end)>> \o chunk_loop(lst, n_parts, q, r, i + 1, end)

\* chunk_list without "+ (1 if i < r else 0)": the remainder is dropped
chunk_list_no_remainder(lst, n_parts) ==
    IF n_parts <= 0 THEN << >>
    ELSE chunk_loop(lst, n_parts, Len(lst) \div n_parts, 0, 0, 0)

\* chunk_list with chunks of q elements and the whole remainder in the last one
chunk_list_last_extra(lst, n_parts) ==
    IF n_parts <= 0 THEN << >>
    ELSE LET q == Len(lst) \div n_parts
         IN  [i \in 1..n_parts |->
                Slice(lst, (i - 1) * q, IF i = n_parts THEN Len(lst) ELSE i * q)]

chunk_list(lst, n_parts) ==
    IF n_parts <= 0 THEN << >>
    ELSE chunk_loop(lst, n_parts, Len(lst) \div n_parts, Len(lst) % n_parts, 0, 0)

(***************************************************************************)
(* dict_add, t1.py lines 68-70: the value of a after dict_add(a, b).       *)
(***************************************************************************)
\* dict_add with "a[k] = v": the value of b replaces the value of a
dict_add_overwrite(a, b) ==
    [k \in DOMAIN a \cup DOMAIN b |-> IF k \in DOMAIN b THEN b[k] ELSE a[k]]

dict_add(a, b) ==
    [k \in DOMAIN a \cup DOMAIN b |->
        IF k \in DOMAIN b THEN Get(a, k) + b[k] ELSE a[k]]

(***************************************************************************)
(* read_manifest and build_from_pattern, t1.py lines 20-35.  A manifest    *)
(* line is a file name or Blank (a line that strip() empties).             *)
(***************************************************************************)
Blank == 0

read_manifest(path) == SelectSeq(path.lines, LAMBDA s : s # Blank)

build_from_pattern(count) == [i \in 1..count |-> i]

(***************************************************************************)
(* The state of one run.                                                   *)
(***************************************************************************)
VARIABLES
    size,           \* comm.Get_size()
    sendMode,       \* how comm.send completes: "buffered" or "sync"
    input_arg,      \* args.input: [txt, hasN, name]
    count,          \* args.count
    no_seq,         \* args.no_seq
    manifest,       \* the manifest file that args.input names
    pc,             \* rank -> where that process is
    file_list,      \* rank 0
    assignments,    \* rank 0
    r,              \* rank 0: the loop variable of the send and receive loops
    my_files,       \* rank 0
    seq_counts,     \* rank 0: <<the baseline's result>>, << >> before it ran
    master_counts,  \* rank 0
    assigned,       \* worker -> its assignment
    counts,         \* worker -> its Counter
    idx,            \* rank -> files of its slice analysed so far
    chan11,         \* worker -> assignment messages in flight to it
    chan22,         \* worker -> result messages in flight from it
    arrived,        \* ranks that have called comm.Barrier()
    stderr,         \* what rank 0 printed to sys.stderr
    report,         \* the ANALYSIS RESULTS lines rank 0 printed
    sent,           \* every message sent so far, in the order of sending
    received,       \* every message received so far
    folded,         \* the ranks whose result rank 0 folded, in order
    timer,          \* rank 0: "idle" before t0 is read, "running", "stopped" once t1 is read
    seq_time,       \* rank 0: <<the baseline's duration>>, << >> for None
    parallel_time,  \* rank 0: <<the duration of the timed phase>>, << >> before it is known
    timing          \* the timing lines rank 0 printed

\* the state of a run of parallel_log_analyser.py (stage 1)
VARIABLES
    log_dir,        \* what os.listdir(log_dir) gives
    log_files,      \* rank 0: the .log files os.listdir gave
    total_counts,   \* rank 0
    next_i,         \* rank 0: the loop variable i of the send and receive loops
    files,          \* worker -> the files it received
    partial_counts, \* worker -> its Counter
    pos,            \* rank -> files of its list analysed so far
    to_worker,      \* worker -> messages in flight to it
    to_master,      \* worker -> messages in flight from it
    dispatched,     \* worker -> the slices rank 0 sent to it, in order
    totals          \* the ANALYSIS RESULTS lines rank 0 printed

stage1_vars == <<log_dir, log_files, total_counts, next_i, files, partial_counts, pos,
                 to_worker, to_master, dispatched, totals>>

t1_vars == <<input_arg, count, no_seq, manifest, file_list, assignments, r, my_files,
             seq_counts, master_counts, assigned, counts, idx, chan11, chan22, arrived,
             stderr, report, sent, received, folded, timer, seq_time, parallel_time,
             timing>>

vars == <<size, sendMode, pc, t1_vars, stage1_vars>>

\* the stage-1 variables of a run of t1.py, and the t1.py variables of a run of stage 1
Stage1Idle ==
    /\ log_dir = << >>
    /\ log_files = << >>
    /\ total_counts = Counter
    /\ next_i = 0
    /\ files = << >>
    /\ partial_counts = << >>
    /\ pos = << >>
    /\ to_worker = << >>
    /\ to_master = << >>
    /\ dispatched = << >>
    /\ totals = << >>

Ranks == 0..(size - 1)

Workers == 1..(size - 1)

SeqsUpTo(S, n) == UNION {[1..k -> S] : k \in 0..n}

\* the command lines and manifest files of the model
Inputs ==
    {[input_arg |-> [txt |-> TRUE, hasN |-> h, name |-> 0], count |-> 0, manifest |-> m] :
        h \in BOOLEAN, m \in {NoFile} \cup {File(l) : l \in SeqsUpTo({Blank} \cup (1..MaxName), MaxManifest)}}
    \cup
    {[input_arg |-> [txt |-> FALSE, hasN |-> TRUE, name |-> 0], count |-> c, manifest |-> NoFile] :
        c \in (-1)..MaxCount}
    \cup
    {[input_arg |-> [txt |-> FALSE, hasN |-> FALSE, name |-> n], count |-> 0, manifest |-> NoFile] :
        n \in 1..MaxName}

Init ==
    /\ size \in 1..MaxSize
    /\ sendMode \in {"buffered", "sync"}
    /\ \E i \in Inputs :
          /\ input_arg = i.input_arg
          /\ count = i.count
          /\ manifest = i.manifest
    /\ no_seq \in BOOLEAN
    /\ pc = [p \in Ranks |-> IF p = 0 THEN "build" ELSE "recv"]
    /\ file_list = << >>
    /\ assignments = << >>
    /\ r = 0
    /\ my_files = << >>
    /\ seq_counts = << >>
    /\ master_counts = Counter
    /\ assigned = [w \in Workers |-> << >>]
    /\ counts = [w \in Workers |-> Counter]
    /\ idx = [p \in Ranks |-> 0]
    /\ chan11 = [w \in Workers |-> << >>]
    /\ chan22 = [w \in Workers |-> << >>]
    /\ arrived = {}
    /\ stderr = {}
    /\ report = << >>
    /\ sent = << >>
    /\ received = {}
    /\ folded = << >>
    /\ timer = "idle"
    /\ seq_time = << >>
    /\ parallel_time = << >>
    /\ timing = << >>
    /\ Stage1Idle

Msg(src, dst, tag, payload) == [src |-> src, dst |-> dst, tag |-> tag, payload |-> payload]

(***************************************************************************)
(* Rank 0, t1.py lines 79-151.                                             *)
(***************************************************************************)
\* lines 80-101: the file list the master constructs
resolve_file_list ==
    IF input_arg.txt
    THEN IF manifest.ok THEN read_manifest(manifest) ELSE << >>
    ELSE IF input_arg.hasN
         THEN IF count <= 0 THEN << >> ELSE build_from_pattern(count)
         ELSE <<input_arg.name>>

\* resolve_errors of a master that swallows the failure without a message
resolve_errors_silent == {}

\* lines 90 and 94: what the master prints to sys.stderr on the way
resolve_errors ==
    IF input_arg.txt
    THEN IF manifest.ok THEN {} ELSE {"Failed to read manifest"}
    ELSE IF input_arg.hasN /\ count <= 0
         THEN {"Pattern mode requires --count N (N>0)."}
         ELSE {}

\* lines 79-106
MasterBuild ==
    /\ pc[0] = "build"
    /\ file_list' = resolve_file_list
    /\ stderr' = resolve_errors
    /\ assignments' = chunk_list(file_list', size)
    /\ r' = 1
    /\ pc' = [pc EXCEPT ![0] = "send"]
    /\ UNCHANGED <<size, sendMode, input_arg, count, no_seq, manifest, my_files,
                   seq_counts, master_counts, assigned, counts, idx, chan11, chan22,
                   arrived, report, sent, received, folded,
                   timer, seq_time, parallel_time, timing, stage1_vars>>

\* MasterSend with comm.send(assignments[r - 1], dest=r, tag=11)
MasterSendOffByOne ==
    /\ pc[0] = "send"
    /\ r < size
    /\ chan11' = [chan11 EXCEPT ![r] = Append(@, assignments[r])]
    /\ sent' = Append(sent, Msg(0, r, 11, assignments[r]))
    /\ IF sendMode = "sync"
       THEN /\ pc' = [pc EXCEPT ![0] = "sendwait"]
            /\ r' = r
       ELSE /\ pc' = pc
            /\ r' = r + 1
    /\ UNCHANGED <<size, sendMode, input_arg, count, no_seq, manifest, file_list,
                   assignments, my_files, seq_counts, master_counts, assigned, counts,
                   idx, chan22, arrived, stderr, report, received, folded,
                   timer, seq_time, parallel_time, timing, stage1_vars>>

\* lines 108-109: one comm.send(assignments[r], dest=r, tag=11)
MasterSend ==
    /\ pc[0] = "send"
    /\ r < size
    /\ chan11' = [chan11 EXCEPT ![r] = Append(@, assignments[r + 1])]
    /\ sent' = Append(sent, Msg(0, r, 11, assignments[r + 1]))
    /\ IF sendMode = "sync"
       THEN /\ pc' = [pc EXCEPT ![0] = "sendwait"]
            /\ r' = r
       ELSE /\ pc' = pc
            /\ r' = r + 1
    /\ UNCHANGED <<size, sendMode, input_arg, count, no_seq, manifest, file_list,
                   assignments, my_files, seq_counts, master_counts, assigned, counts,
                   idx, chan22, arrived, stderr, report, received, folded,
                   timer, seq_time, parallel_time, timing, stage1_vars>>

\* line 109 under a synchronous send: comm.send returns once worker r has received
MasterSendDone ==
    /\ pc[0] = "sendwait"
    /\ chan11[r] = << >>
    /\ r' = r + 1
    /\ pc' = [pc EXCEPT ![0] = "send"]
    /\ UNCHANGED <<size, sendMode, input_arg, count, no_seq, manifest, file_list,
                   assignments, my_files, seq_counts, master_counts, assigned, counts,
                   idx, chan11, chan22, arrived, stderr, report, sent, received, folded,
                   timer, seq_time, parallel_time, timing, stage1_vars>>

\* MasterKeep of a master that only coordinates: it keeps no file for itself
MasterKeepNothing ==
    /\ pc[0] = "send"
    /\ r >= size
    /\ my_files' = << >>
    /\ pc' = [pc EXCEPT ![0] = IF no_seq THEN "barrier" ELSE "baseline"]
    /\ UNCHANGED <<size, sendMode, input_arg, count, no_seq, manifest, file_list,
                   assignments, r, seq_counts, master_counts, assigned, counts, idx,
                   chan11, chan22, arrived, stderr, report, sent, received, folded,
                   timer, seq_time, parallel_time, timing, stage1_vars>>

\* lines 111-114: the send loop is over, the master keeps assignments[0]
MasterKeep ==
    /\ pc[0] = "send"
    /\ r >= size
    /\ my_files' = assignments[1]
    /\ pc' = [pc EXCEPT ![0] = IF no_seq THEN "barrier" ELSE "baseline"]
    /\ UNCHANGED <<size, sendMode, input_arg, count, no_seq, manifest, file_list,
                   assignments, r, seq_counts, master_counts, assigned, counts, idx,
                   chan11, chan22, arrived, stderr, report, sent, received, folded,
                   timer, seq_time, parallel_time, timing, stage1_vars>>

\* MasterBaseline of a master that goes on without calling comm.Barrier()
MasterBaselineNoBarrier ==
    /\ pc[0] = "baseline"
    /\ seq_counts' = <<analyse_files(file_list)>>
    /\ \E d \in 0..MaxTime : seq_time' = <<d>>
    /\ pc' = [pc EXCEPT ![0] = "analyse"]
    /\ UNCHANGED <<size, sendMode, input_arg, count, no_seq, manifest, file_list,
                   assignments, r, my_files, master_counts, assigned, counts, idx,
                   chan11, chan22, arrived, stderr, report, sent, received, folded,
                   timer, parallel_time, timing, stage1_vars>>

\* MasterBaseline that keeps the baseline's mapping as the running total
MasterBaselineFolds ==
    /\ pc[0] = "baseline"
    /\ seq_counts' = <<analyse_files(file_list)>>
    /\ master_counts' = analyse_files(file_list)
    /\ \E d \in 0..MaxTime : seq_time' = <<d>>
    /\ pc' = [pc EXCEPT ![0] = "barrier"]
    /\ UNCHANGED <<size, sendMode, input_arg, count, no_seq, manifest, file_list,
                   assignments, r, my_files, assigned, counts, idx,
                   chan11, chan22, arrived, stderr, report, sent, received, folded,
                   timer, parallel_time, timing, stage1_vars>>

\* lines 114-120: the sequential baseline; seq_time = t1 - t0 of two clock readings
MasterBaseline ==
    /\ pc[0] = "baseline"
    /\ seq_counts' = <<analyse_files(file_list)>>
    /\ \E d \in 0..MaxTime : seq_time' = <<d>>
    /\ pc' = [pc EXCEPT ![0] = "barrier"]
    /\ UNCHANGED <<size, sendMode, input_arg, count, no_seq, manifest, file_list,
                   assignments, r, my_files, master_counts, assigned, counts, idx,
                   chan11, chan22, arrived, stderr, report, sent, received, folded,
                   timer, parallel_time, timing, stage1_vars>>

(***************************************************************************)
(* comm.Barrier(), lines 123 and 156: a process calls it, and returns from *)
(* it once every rank of the communicator has called it.  Rank 0 reads t0  *)
(* as it returns (line 124).                                               *)
(***************************************************************************)
\* BarrierEnter of a master that reads t0 before it calls comm.Barrier()
BarrierEnterTimed(p) ==
    /\ pc[p] = "barrier"
    /\ arrived' = arrived \cup {p}
    /\ pc' = [pc EXCEPT ![p] = "wait"]
    /\ timer' = IF p = 0 THEN "running" ELSE timer
    /\ UNCHANGED <<size, sendMode, input_arg, count, no_seq, manifest, file_list,
                   assignments, r, my_files, seq_counts, master_counts, assigned,
                   counts, idx, chan11, chan22, stderr, report, sent, received, folded,
                   seq_time, parallel_time, timing, stage1_vars>>

BarrierEnter(p) ==
    /\ pc[p] = "barrier"
    /\ arrived' = arrived \cup {p}
    /\ pc' = [pc EXCEPT ![p] = "wait"]
    /\ UNCHANGED <<size, sendMode, input_arg, count, no_seq, manifest, file_list,
                   assignments, r, my_files, seq_counts, master_counts, assigned,
                   counts, idx, chan11, chan22, stderr, report, sent, received, folded,
                   timer, seq_time, parallel_time, timing, stage1_vars>>

BarrierLeave(p) ==
    /\ pc[p] = "wait"
    /\ arrived = Ranks
    /\ pc' = [pc EXCEPT ![p] = "analyse"]
    /\ timer' = IF p = 0 THEN "running" ELSE timer
    /\ UNCHANGED <<size, sendMode, input_arg, count, no_seq, manifest, file_list,
                   assignments, r, my_files, seq_counts, master_counts, assigned,
                   counts, idx, chan11, chan22, arrived, stderr, report, sent, received,
                   folded, seq_time, parallel_time, timing, stage1_vars>>

\* line 125, analyse_files(my_files): one iteration of its loop
MasterAnalyse ==
    /\ pc[0] = "analyse"
    /\ idx[0] < Len(my_files)
    /\ master_counts' = analyse_one(master_counts, my_files[idx[0] + 1])
    /\ idx' = [idx EXCEPT ![0] = @ + 1]
    /\ UNCHANGED <<size, sendMode, input_arg, count, no_seq, manifest, pc, file_list,
                   assignments, r, my_files, seq_counts, assigned, counts, chan11,
                   chan22, arrived, stderr, report, sent, received, folded,
                   timer, seq_time, parallel_time, timing, stage1_vars>>

\* lines 125-127: analyse_files returns, the receive loop starts
MasterAnalyseDone ==
    /\ pc[0] = "analyse"
    /\ idx[0] >= Len(my_files)
    /\ r' = 1
    /\ pc' = [pc EXCEPT ![0] = "collect"]
    /\ UNCHANGED <<size, sendMode, input_arg, count, no_seq, manifest, file_list,
                   assignments, my_files, seq_counts, master_counts, assigned, counts,
                   idx, chan11, chan22, arrived, stderr, report, sent, received, folded,
                   timer, seq_time, parallel_time, timing, stage1_vars>>

\* MasterRecv with comm.recv(source=MPI.ANY_SOURCE, tag=22): first come, first folded
MasterRecvAnySource ==
    /\ pc[0] = "collect"
    /\ r < size
    /\ \E s \in Workers :
          /\ chan22[s] # << >>
          /\ master_counts' = dict_add(master_counts, Head(chan22[s]))
          /\ chan22' = [chan22 EXCEPT ![s] = Tail(@)]
          /\ received' = received \cup {Msg(s, 0, 22, Head(chan22[s]))}
          /\ folded' = Append(folded, s)
    /\ r' = r + 1
    /\ UNCHANGED <<size, sendMode, input_arg, count, no_seq, manifest, pc, file_list,
                   assignments, my_files, seq_counts, assigned, counts, idx, chan11,
                   arrived, stderr, report, sent,
                   timer, seq_time, parallel_time, timing, stage1_vars>>

\* lines 127-129: wc = comm.recv(source=r, tag=22); dict_add(master_counts, wc)
MasterRecv ==
    /\ pc[0] = "collect"
    /\ r < size
    /\ chan22[r] # << >>
    /\ master_counts' = dict_add(master_counts, Head(chan22[r]))
    /\ chan22' = [chan22 EXCEPT ![r] = Tail(@)]
    /\ received' = received \cup {Msg(r, 0, 22, Head(chan22[r]))}
    /\ folded' = Append(folded, r)
    /\ r' = r + 1
    /\ UNCHANGED <<size, sendMode, input_arg, count, no_seq, manifest, pc, file_list,
                   assignments, my_files, seq_counts, assigned, counts, idx, chan11,
                   arrived, stderr, report, sent,
                   timer, seq_time, parallel_time, timing, stage1_vars>>

\* Report without lines 139-140: the error total is never printed
ReportWithoutErrors(mc) == [k \in LOG_LEVELS |-> Get(mc, k)]

\* lines 137-140: the result lines of the report
Report(mc) ==
    [k \in LOG_LEVELS \cup (IF Get(mc, ERRORS) > 0 THEN {"FILES_OPEN_ERRORS"} ELSE {}) |->
        IF k = "FILES_OPEN_ERRORS" THEN Get(mc, ERRORS) ELSE Get(mc, k)]

\* lines 142-150: the timing lines.  A speedup is the fraction <<numerator,
\* denominator>>; << >> stands for a line that was not printed.
NoTiming(par) ==
    [parallel |-> <<par>>, sequential |-> << >>, speedup |-> << >>, efficiency |-> << >>]

Timing(seq, par) ==
    IF seq # << >> /\ seq[1] > 0
    THEN [parallel |-> <<par>>, sequential |-> seq,
          speedup |-> <<seq[1], par>>, efficiency |-> <<seq[1], par * size>>]
    ELSE NoTiming(par)

\* line 144: seq_time / parallel_time raises ZeroDivisionError
DivisionFaults(seq, par) == seq # << >> /\ seq[1] > 0 /\ par = 0

\* lines 130-151: t1 is read, the results are printed, then the timing lines;
\* the run of rank 0 ends with a traceback when the division faults
PrintReport ==
    /\ timer' = "stopped"
    /\ report' = Report(master_counts)
    /\ \E d \in 0..MaxTime :
          /\ parallel_time' = <<d>>
          /\ IF DivisionFaults(seq_time, d)
             THEN /\ timing' = NoTiming(d)
                  /\ pc' = [pc EXCEPT ![0] = "fault"]
             ELSE /\ timing' = Timing(seq_time, d)
                  /\ pc' = [pc EXCEPT ![0] = "done"]
    /\ UNCHANGED <<size, sendMode, input_arg, count, no_seq, manifest, file_list,
                   assignments, r, my_files, seq_counts, master_counts, assigned, counts,
                   idx, chan11, chan22, arrived, stderr, sent, received, folded,
                   seq_time, stage1_vars>>

\* MasterReport after a receive loop over range(1, size - 1): one result short
MasterReportEarly ==
    /\ pc[0] = "collect"
    /\ r >= size - 1
    /\ PrintReport

\* lines 127-151: the receive loop is over, the master reports
MasterReport ==
    /\ pc[0] = "collect"
    /\ r >= size
    /\ PrintReport

(***************************************************************************)
(* A worker rank, t1.py lines 153-158.                                     *)
(***************************************************************************)
\* line 155: assigned = comm.recv(source=0, tag=11)
WorkerRecv(w) ==
    /\ pc[w] = "recv"
    /\ chan11[w] # << >>
    /\ assigned' = [assigned EXCEPT ![w] = Head(chan11[w])]
    /\ chan11' = [chan11 EXCEPT ![w] = Tail(@)]
    /\ received' = received \cup {Msg(0, w, 11, Head(chan11[w]))}
    /\ pc' = [pc EXCEPT ![w] = "barrier"]
    /\ UNCHANGED <<size, sendMode, input_arg, count, no_seq, manifest, file_list,
                   assignments, r, my_files, seq_counts, master_counts, counts, idx,
                   chan22, arrived, stderr, report, sent, folded,
                   timer, seq_time, parallel_time, timing, stage1_vars>>

\* line 157, analyse_files(assigned): one iteration of its loop
WorkerAnalyse(w) ==
    /\ pc[w] = "analyse"
    /\ idx[w] < Len(assigned[w])
    /\ counts' = [counts EXCEPT ![w] = analyse_one(@, assigned[w][idx[w] + 1])]
    /\ idx' = [idx EXCEPT ![w] = @ + 1]
    /\ UNCHANGED <<size, sendMode, input_arg, count, no_seq, manifest, pc, file_list,
                   assignments, r, my_files, seq_counts, master_counts, assigned, chan11,
                   chan22, arrived, stderr, report, sent, received, folded,
                   timer, seq_time, parallel_time, timing, stage1_vars>>

\* WorkerSend with comm.send(counts, dest=0, tag=11): no recv(tag=22) matches it
WorkerSendWrongTag(w) ==
    /\ pc[w] = "analyse"
    /\ idx[w] >= Len(assigned[w])
    /\ sent' = Append(sent, Msg(w, 0, 11, counts[w]))
    /\ pc' = [pc EXCEPT ![w] = IF sendMode = "sync" THEN "sending" ELSE "done"]
    /\ UNCHANGED <<size, sendMode, input_arg, count, no_seq, manifest, file_list,
                   assignments, r, my_files, seq_counts, master_counts, assigned, counts,
                   idx, chan11, chan22, arrived, stderr, report, received, folded,
                   timer, seq_time, parallel_time, timing, stage1_vars>>

\* WorkerSend of a loop that stops one file short of the assignment
WorkerSendEarly(w) ==
    /\ pc[w] = "analyse"
    /\ idx[w] >= Len(assigned[w]) - 1
    /\ chan22' = [chan22 EXCEPT ![w] = Append(@, counts[w])]
    /\ sent' = Append(sent, Msg(w, 0, 22, counts[w]))
    /\ pc' = [pc EXCEPT ![w] = IF sendMode = "sync" THEN "sending" ELSE "done"]
    /\ UNCHANGED <<size, sendMode, input_arg, count, no_seq, manifest, file_list,
                   assignments, r, my_files, seq_counts, master_counts, assigned, counts,
                   idx, chan11, arrived, stderr, report, received, folded,
                   timer, seq_time, parallel_time, timing, stage1_vars>>

\* lines 157-158: analyse_files returns; comm.send(counts, dest=0, tag=22)
WorkerSend(w) ==
    /\ pc[w] = "analyse"
    /\ idx[w] >= Len(assigned[w])
    /\ chan22' = [chan22 EXCEPT ![w] = Append(@, counts[w])]
    /\ sent' = Append(sent, Msg(w, 0, 22, counts[w]))
    /\ pc' = [pc EXCEPT ![w] = IF sendMode = "sync" THEN "sending" ELSE "done"]
    /\ UNCHANGED <<size, sendMode, input_arg, count, no_seq, manifest, file_list,
                   assignments, r, my_files, seq_counts, master_counts, assigned, counts,
                   idx, chan11, arrived, stderr, report, received, folded,
                   timer, seq_time, parallel_time, timing, stage1_vars>>

\* line 158 under a synchronous send: comm.send returns once rank 0 has received
WorkerSendDone(w) ==
    /\ pc[w] = "sending"
    /\ chan22[w] = << >>
    /\ pc' = [pc EXCEPT ![w] = "done"]
    /\ UNCHANGED <<size, sendMode, input_arg, count, no_seq, manifest, file_list,
                   assignments, r, my_files, seq_counts, master_counts, assigned, counts,
                   idx, chan11, chan22, arrived, stderr, report, sent, received, folded,
                   timer, seq_time, parallel_time, timing, stage1_vars>>

Next ==
    \/ MasterBuild
    \/ MasterSend
    \/ MasterSendDone
    \/ MasterKeep
    \/ MasterBaseline
    \/ \E p \in Ranks : BarrierEnter(p)
    \/ \E p \in Ranks : BarrierLeave(p)
    \/ MasterAnalyse
    \/ MasterAnalyseDone
    \/ MasterRecv
    \/ MasterReport
    \/ \E w \in Workers : WorkerRecv(w)
    \/ \E w \in Workers : WorkerAnalyse(w)
    \/ \E w \in Workers : WorkerSend(w)
    \/ \E w \in Workers : WorkerSendDone(w)

Spec == Init /\ [][Next]_vars

(***************************************************************************)
(* The steps of each process, and the run under a fair scheduler: a        *)
(* process that can take a step eventually takes one.                      *)
(***************************************************************************)
Master ==
    \/ MasterBuild
    \/ MasterSend
    \/ MasterSendDone
    \/ MasterKeep
    \/ MasterBaseline
    \/ BarrierEnter(0)
    \/ BarrierLeave(0)
    \/ MasterAnalyse
    \/ MasterAnalyseDone
    \/ MasterRecv
    \/ MasterReport

Worker(w) ==
    /\ w \in Workers
    /\ \/ WorkerRecv(w)
       \/ BarrierEnter(w)
       \/ BarrierLeave(w)
       \/ WorkerAnalyse(w)
       \/ WorkerSend(w)
       \/ WorkerSendDone(w)

FairSpec ==
    /\ Spec
    /\ WF_vars(Master)
    /\ \A w \in 1..(MaxSize - 1) : WF_vars(Worker(w))

(***************************************************************************)
(* Helpers of the properties.                                              *)
(***************************************************************************)
RECURSIVE Flatten(_)
Flatten(chunks) == IF chunks = << >> THEN << >> ELSE Head(chunks) \o Flatten(Tail(chunks))

Readable(fname) == FileSystem(fname).ok

NumUnreadable(lst) == Cardinality({i \in DOMAIN lst : ~Readable(lst[i])})

\* the messages with the given tag sent so far by src
SentBy(src, tag) == SelectSeq(sent, LAMBDA m : m.src = src /\ m.tag = tag)

\* the messages with the given tag sent so far to dst
SentTo(dst, tag) == SelectSeq(sent, LAMBDA m : m.dst = dst /\ m.tag = tag)

\* the orders in which the results of all workers can be folded
Perms(S) == {f \in [1..Cardinality(S) -> S] : \A i, j \in DOMAIN f : f[i] = f[j] => i = j}

\* the running total after folding the workers' results in the given order
RECURSIVE FoldInOrder(_, _)
FoldInOrder(total, order) ==
    IF order = << >> THEN total
    ELSE FoldInOrder(dict_add(total, SentBy(Head(order), 22)[1].payload), Tail(order))

\* where a process is before it returns from comm.Barrier()
BeforeTimedPhase == {"build", "send", "sendwait", "baseline", "recv", "barrier", "wait"}

(***************************************************************************)
(* C1: partition completeness of chunk_list.  Once rank 0 has built the    *)
(* assignments, there are exactly size of them and their concatenation in  *)
(* rank order is the file list: every entry is in exactly one slice, in    *)
(* the original order, none twice and none left out.                       *)
(***************************************************************************)
C1_PartitionComplete ==
    pc[0] # "build" =>
        /\ Len(assignments) = size
        /\ Flatten(assignments) = file_list

C1_Witness ==
    /\ pc[0] # "build"
    /\ size = 3
    /\ Len(file_list) = 5
    /\ Flatten(assignments) = file_list
    /\ Len(assignments[3]) > 0

(***************************************************************************)
(* C2: partition balance of chunk_list.  The lengths of any two slices     *)
(* differ by at most 1 and exactly the first Len(file_list) % size slices  *)
(* hold the extra element.                                                 *)
(***************************************************************************)
C2_PartitionBalance ==
    pc[0] # "build" =>
        LET L == Len(file_list)
        IN  /\ \A i, j \in 1..size : Len(assignments[i]) - Len(assignments[j]) <= 1
            /\ \A i \in 1..size :
                  Len(assignments[i]) = (L \div size) + (IF i <= L % size THEN 1 ELSE 0)

\* 7 files among 3 participants: slices of 3, 2 and 2 files
C2_Witness ==
    /\ pc[0] # "build"
    /\ size = 3
    /\ Len(file_list) = 7
    /\ <<Len(assignments[1]), Len(assignments[2]), Len(assignments[3])>> = <<3, 2, 2>>

(***************************************************************************)
(* C3: N = 1 equivalence.  In a run with a single participant no message   *)
(* is ever sent or received, rank 0 keeps the whole file list as its own   *)
(* slice, and the final mapping is the one analyse_files gives for the     *)
(* whole file list (the mapping of the sequential baseline, when it ran).  *)
(***************************************************************************)
C3_SingleParticipant ==
    size = 1 =>
        /\ sent = << >>
        /\ received = {}
        /\ pc[0] \notin {"build", "send"} => my_files = file_list
        /\ pc[0] = "done" =>
              /\ master_counts = analyse_files(file_list)
              /\ seq_counts # << >> => seq_counts[1] = master_counts

C3_Witness ==
    /\ size = 1
    /\ pc[0] = "done"
    /\ seq_counts # << >>
    /\ Len(file_list) >= 2
    /\ NumUnreadable(file_list) = 1
    /\ Get(master_counts, "ERROR") > 0
    /\ master_counts = seq_counts[1]

(***************************************************************************)
(* C4: merge commutativity.  When rank 0 is done, folding the workers'     *)
(* partial results into its own counts with dict_add in any order (any     *)
(* permutation of the workers) gives the final mapping it holds.           *)
(***************************************************************************)
C4_MergeCommutes ==
    pc[0] = "done" =>
        \A order \in Perms(Workers) :
            FoldInOrder(analyse_files(my_files), order) = master_counts

\* two workers whose results share a key with different counts
C4_Witness ==
    /\ pc[0] = "done"
    /\ size >= 3
    /\ LET a == SentBy(1, 22)[1].payload
           b == SentBy(2, 22)[1].payload
       IN  /\ "INFO" \in DOMAIN a \cap DOMAIN b
           /\ a["INFO"] # b["INFO"]
           /\ FoldInOrder(analyse_files(my_files), <<2, 1>>) = master_counts

(***************************************************************************)
(* C5: error isolation.  When the file list holds exactly one unreadable   *)
(* entry, the final mapping is the mapping of the readable entries alone   *)
(* plus an error count of exactly 1.                                       *)
(***************************************************************************)
C5_ErrorIsolation ==
    (pc[0] = "done" /\ NumUnreadable(file_list) = 1) =>
        /\ master_counts = Incr(analyse_files(SelectSeq(file_list, Readable)), ERRORS)
        /\ master_counts[ERRORS] = 1

\* the unreadable file shares a slice with a readable one that has counts
C5_Witness ==
    /\ pc[0] = "done"
    /\ size >= 2
    /\ NumUnreadable(file_list) = 1
    /\ \E k \in 1..size :
          /\ NumUnreadable(assignments[k]) = 1
          /\ \E i \in DOMAIN assignments[k] :
                /\ Readable(assignments[k][i])
                /\ analyse_files(<<assignments[k][i]>>) # Counter
    /\ master_counts[ERRORS] = 1
    /\ Get(master_counts, "INFO") > 0

(***************************************************************************)
(* C6: barrier contract.  A participant that has left comm.Barrier() (and  *)
(* so may analyse its slice in the timed phase) finds that every rank has  *)
(* called the barrier and that every worker has received its assignment;   *)
(* before that, no participant has analysed a file of its slice.           *)
(***************************************************************************)
C6_Barrier ==
    \A p \in Ranks :
        /\ pc[p] \in BeforeTimedPhase => idx[p] = 0
        /\ pc[p] \notin BeforeTimedPhase =>
              /\ arrived = Ranks
              /\ \A w \in Workers :
                    /\ pc[w] # "recv"
                    /\ \E m \in received :
                          m.dst = w /\ m.tag = 11 /\ m.payload = assigned[w]

\* one participant is analysing while another has not yet returned from the barrier
C6_Witness ==
    /\ size = 3
    /\ \E p, q \in Ranks :
          /\ pc[p] = "analyse"
          /\ idx[p] > 0
          /\ pc[q] = "wait"
    /\ arrived = Ranks

(***************************************************************************)
(* C7: rank-ordered collection.  The ranks whose results rank 0 has folded *)
(* are always 1, 2, ..., k in that order, whatever the order in which the  *)
(* workers sent.                                                           *)
(***************************************************************************)
C7_RankOrder == folded = [i \in 1..Len(folded) |-> i]

\* worker 2 sent its result before worker 1 did, and was folded after it
C7_Witness ==
    /\ size = 3
    /\ folded = <<1, 2>>
    /\ \E i, j \in DOMAIN sent :
          i < j /\ sent[i].tag = 22 /\ sent[i].src = 2 /\ sent[j].tag = 22 /\ sent[j].src = 1

(***************************************************************************)
(* C8: collection of exactly N-1 results.  When rank 0 has reported, it    *)
(* has folded exactly one result of every worker; a worker that is past    *)
(* its analysis has sent exactly one result, the empty mapping when its    *)
(* slice is empty; and as long as some worker has not sent, rank 0 has not *)
(* reported.                                                               *)
(***************************************************************************)
C8_CollectAll ==
    /\ pc[0] = "done" =>
          /\ Len(folded) = size - 1
          /\ \A w \in Workers :
                /\ Cardinality({i \in DOMAIN folded : folded[i] = w}) = 1
                /\ chan22[w] = << >>
    /\ \A w \in Workers :
          /\ Len(SentBy(w, 22)) <= 1
          /\ pc[w] \in {"sending", "done"} =>
                /\ Len(SentBy(w, 22)) = 1
                /\ assigned[w] = << >> => SentBy(w, 22)[1].payload = Counter
          /\ Len(SentBy(w, 22)) = 0 => (pc[0] # "done" /\ report = << >>)

\* more participants than files: the workers with empty slices were waited for
C8_Witness ==
    /\ pc[0] = "done"
    /\ size = 3
    /\ Len(file_list) = 1
    /\ assigned[1] = << >>
    /\ assigned[2] = << >>
    /\ folded = <<1, 2>>
    /\ SentBy(2, 22)[1].payload = Counter

(***************************************************************************)
(* C9: configuration errors.  The file-list construction fails when the    *)
(* manifest cannot be read or when pattern mode comes with --count <= 0.   *)
(***************************************************************************)
ConfigError ==
    \/ input_arg.txt /\ ~manifest.ok
    \/ ~input_arg.txt /\ input_arg.hasN /\ count <= 0

\* C9 as claimed: in a run with a configuration error no assignment message
\* is dispatched to any worker.
C9_NoDispatchOnConfigError == ConfigError => Len(SentBy(0, 11)) = 0

\* C9 as amended: the error is reported before any assignment is sent and the
\* file list becomes empty; the run goes on, every worker is sent exactly one
\* assignment and every assignment sent is empty.  Without a configuration
\* error nothing is reported.
C9_ConfigErrorEmptyDispatch ==
    /\ ~ConfigError => stderr = {}
    /\ ConfigError =>
          /\ pc[0] # "build" => (stderr # {} /\ file_list = << >>)
          /\ Len(SentBy(0, 11)) > 0 => stderr # {}
          /\ \A i \in DOMAIN sent : sent[i].tag = 11 => sent[i].payload = << >>
          /\ pc[0] \notin {"build", "send", "sendwait"} =>
                \A w \in Workers : Len(SentTo(w, 11)) = 1

C9_Witness ==
    /\ ConfigError
    /\ size = 3
    /\ pc[0] = "done"
    /\ stderr # {}
    /\ Len(SentBy(0, 11)) = 2
    /\ assigned[1] = << >>
    /\ assigned[2] = << >>

(***************************************************************************)
(* C10: the error total in the report.                                     *)
(***************************************************************************)
\* C10 as claimed: every report includes the error-tag total, also when it is
\* zero.
C10_ReportAlwaysHasErrorTotal == pc[0] = "done" => "FILES_OPEN_ERRORS" \in DOMAIN report

\* C10 as amended: every report includes the four level totals, also when
\* zero; it includes the error-tag total exactly when some file of the file
\* list could not be opened, and then with the number of such files.
C10_ReportErrorTotalWhenPositive ==
    pc[0] = "done" =>
        /\ LOG_LEVELS \subseteq DOMAIN report
        /\ \A k \in LOG_LEVELS : report[k] = Get(master_counts, k)
        /\ "FILES_OPEN_ERRORS" \in DOMAIN report <=> NumUnreadable(file_list) > 0
        /\ "FILES_OPEN_ERRORS" \in DOMAIN report =>
              report["FILES_OPEN_ERRORS"] = NumUnreadable(file_list)

\* a run in which every file could be opened: the report has no error line
C10_Witness ==
    /\ pc[0] = "done"
    /\ Len(file_list) >= 2
    /\ NumUnreadable(file_list) = 0
    /\ DOMAIN report = LOG_LEVELS
    /\ report["INFO"] > 0
    /\ report["DEBUG"] = 0

(***************************************************************************)
(* C11: the sequential baseline does not affect the distributed counts.    *)
(* Whether or not the baseline runs, the file list is the resolved one,    *)
(* the assignments are its chunks, the running total is empty until the    *)
(* timed phase starts, and the final mapping is the fold of the chunks'    *)
(* mappings: a value in which neither --no-seq nor the baseline's mapping  *)
(* occurs, so a run with the baseline and the same run without it report   *)
(* the same mapping.                                                       *)
(***************************************************************************)
RECURSIVE FoldChunks(_, _)
FoldChunks(total, chunks) ==
    IF chunks = << >> THEN total
    ELSE FoldChunks(dict_add(total, analyse_files(Head(chunks))), Tail(chunks))

\* the final mapping of a run over lst with n participants
DistributedCounts(lst, n) ==
    LET chunks == chunk_list(lst, n)
    IN  FoldChunks(analyse_files(Head(chunks)), Tail(chunks))

Finished == pc[0] \in {"done", "fault"}

C11_BaselineIsInert ==
    /\ pc[0] # "build" =>
          /\ file_list = resolve_file_list
          /\ assignments = chunk_list(resolve_file_list, size)
    /\ pc[0] \in BeforeTimedPhase => master_counts = Counter
    /\ Finished => master_counts = DistributedCounts(resolve_file_list, size)
    /\ no_seq => seq_counts = << >>

C11_Witness ==
    /\ pc[0] = "done"
    /\ ~no_seq
    /\ seq_counts # << >>
    /\ size = 3
    /\ Len(file_list) >= 3
    /\ seq_counts[1] # Counter
    /\ master_counts = DistributedCounts(resolve_file_list, size)

(***************************************************************************)
(* C12: derived timing figures.  Whenever a baseline duration was          *)
(* measured, rank 0 ends without a fault, also for a zero baseline or a    *)
(* zero distributed duration, and for a positive baseline it has printed   *)
(* speedup = seq_time / parallel_time and efficiency = speedup / size.     *)
(* (For a zero baseline the source prints "N/A" instead of a speedup of 0; *)
(* the formula leaves that case open and asks only for the absence of a    *)
(* fault there.)                                                           *)
(***************************************************************************)
C12_SpeedupReportedWithoutFault ==
    (Finished /\ seq_time # << >>) =>
        /\ pc[0] # "fault"
        /\ seq_time[1] > 0 =>
              /\ timing.speedup = <<seq_time[1], parallel_time[1]>>
              /\ timing.efficiency = <<seq_time[1], parallel_time[1] * size>>

(***************************************************************************)
(* C13: dispatch routing.  Every assignment message goes from rank 0 to a  *)
(* worker and carries the slice of that worker's rank; a worker is sent at *)
(* most one, and exactly one once the send loop is over; what worker w     *)
(* received is slice w, and rank 0 keeps slice 0.                          *)
(***************************************************************************)
C13_DispatchRouting ==
    /\ \A k \in DOMAIN sent :
          sent[k].tag = 11 =>
              /\ sent[k].src = 0
              /\ sent[k].dst \in Workers
              /\ sent[k].payload = assignments[sent[k].dst + 1]
    /\ \A w \in Workers :
          /\ Len(SentTo(w, 11)) <= 1
          /\ pc[0] \notin {"build", "send", "sendwait"} => Len(SentTo(w, 11)) = 1
          /\ pc[w] # "recv" => assigned[w] = assignments[w + 1]
    /\ pc[0] \notin {"build", "send", "sendwait"} => my_files = assignments[1]

\* three different slices, each where it belongs
C13_Witness ==
    /\ size = 3
    /\ Finished
    /\ Len(file_list) >= 3
    /\ assignments[1] # assignments[2]
    /\ assignments[2] # assignments[3]
    /\ my_files = assignments[1]
    /\ assigned[1] = assignments[2]
    /\ assigned[2] = assignments[3]

(***************************************************************************)
(* C14: worker completion before reporting.  A worker sends at most one    *)
(* result, and has sent it exactly when it is past its analysis; by then   *)
(* it has processed every file of its assignment and the mapping it sent   *)
(* is analyse_files of the assignment.  While it analyses, its counts are  *)
(* those of the files processed so far.                                    *)
(***************************************************************************)
C14_WorkerCompletes ==
    \A w \in Workers :
        /\ Len(SentBy(w, 22)) <= 1
        /\ Len(SentBy(w, 22)) = 1 <=> pc[w] \in {"sending", "done"}
        /\ Len(SentBy(w, 22)) = 1 =>
              /\ idx[w] = Len(assigned[w])
              /\ SentBy(w, 22)[1].payload = analyse_files(assigned[w])
        /\ pc[w] = "analyse" =>
              counts[w] = analyse_files(SubSeq(assigned[w], 1, idx[w]))

\* a worker with two files, one of them unreadable, has sent its result
C14_Witness ==
    /\ size >= 2
    /\ pc[1] = "done"
    /\ Len(assigned[1]) >= 2
    /\ NumUnreadable(assigned[1]) = 1
    /\ LET wc == SentBy(1, 22)[1].payload
       IN  /\ Get(wc, ERRORS) = 1
           /\ DOMAIN wc # {ERRORS}

(***************************************************************************)
(* C15: timed-phase ordering.  The timer of rank 0 is started only after   *)
(* every rank has called the barrier, every assignment has been sent and   *)
(* the baseline (when it runs) is over; it runs while rank 0 analyses its  *)
(* slice and folds; it is stopped only after the result of the last        *)
(* worker, rank size-1, has been folded.                                   *)
(***************************************************************************)
C15_TimedPhase ==
    /\ timer # "idle" =>
          /\ pc[0] \notin BeforeTimedPhase
          /\ arrived = Ranks
          /\ \A w \in Workers : Len(SentTo(w, 11)) = 1
          /\ ~no_seq => (seq_counts # << >> /\ seq_time # << >>)
    /\ pc[0] \in {"analyse", "collect"} => timer = "running"
    /\ pc[0] \in BeforeTimedPhase => timer = "idle"
    /\ timer = "stopped" =>
          /\ Finished
          /\ Len(folded) = size - 1
          /\ size > 1 => folded[size - 1] = size - 1

C15_Witness ==
    /\ timer = "stopped"
    /\ size = 3
    /\ ~no_seq
    /\ seq_time # << >>
    /\ folded = <<1, 2>>
    /\ parallel_time # << >>

(***************************************************************************)
(* C16: the distributed result equals the sequential result.  When rank 0  *)
(* has reported, its final mapping is analyse_files of the whole file      *)
(* list, and the report shows that mapping; for every file list of the     *)
(* model, also the empty one and those shorter than size.                  *)
(***************************************************************************)
C16_DistributedEqualsSequential ==
    Finished =>
        /\ master_counts = analyse_files(file_list)
        /\ report = Report(analyse_files(file_list))

\* fewer files than participants
C16_Witness ==
    /\ Finished
    /\ size = 3
    /\ Len(file_list) = 2
    /\ assigned[2] = << >>
    /\ master_counts # Counter
    /\ master_counts = analyse_files(file_list)

(***************************************************************************)
(* C17: deadlock freedom and termination.  Under a fair scheduler, with    *)
(* buffered and with synchronous sends, every run reaches a state in which *)
(* every participant has ended and rank 0 has printed the results; hence   *)
(* no reachable state has all processes blocked before that.  Rank 0 ends  *)
(* either normally or, after the results, with the fault of the division   *)
(* of line 144.                                                            *)
(***************************************************************************)
Terminated ==
    /\ \A p \in Ranks : pc[p] \in {"done", "fault"}
    /\ LOG_LEVELS \subseteq DOMAIN report

C17_Terminates == <>Terminated

\* a run with synchronous sends and more than one worker has ended
C17_Witness ==
    /\ Terminated
    /\ sendMode = "sync"
    /\ size = 3
    /\ Len(file_list) >= 3
    /\ folded = <<1, 2>>

(***************************************************************************)
(* Stage 1: parallel_log_analyser.py and its sequential reference,         *)
(* base_log_analyser.py.  The run is given its one argument, a directory   *)
(* that exists.  A directory entry is a number: entry 0 is a file whose    *)
(* name does not end in '.log', entry n > 0 is the log file FileSystem(n). *)
(* The m field of a line reads here as the test of line 19: the line has a *)
(* second word and that word is bracketed.                                 *)
(***************************************************************************)
EndsWithLog(f) == f # 0

\* the directories of the model, each as the list os.listdir returns: every
\* entry once, in an order the code does not choose
Listings ==
    {l \in SeqsUpTo(0..MaxLogName, MaxLogName + 1) :
        \A i, j \in DOMAIN l : i # j => l[i] # l[j]}

\* Counter += Counter: the counts are added and only the positive ones are kept
counter_iadd(a, b) ==
    LET sum == [k \in DOMAIN a \cup DOMAIN b |-> Get(a, k) + Get(b, k)]
    IN  [k \in {x \in DOMAIN sum : sum[x] > 0} |-> sum[k]]

\* parallel_log_analyser.py line 16: open() raises on a file it cannot read
Raises(file_path) == ~FileSystem(file_path).ok

\* parallel_log_analyser.py lines 17-22, the loop over the lines of the file
RECURSIVE analyze_lines(_, _)
analyze_lines(acc, lines) ==
    IF lines = << >> THEN acc
    ELSE LET line == Head(lines)
         IN  analyze_lines(IF line.m /\ line.level \in {"DEBUG", "ERROR", "INFO", "WARN"}
                           THEN Incr(acc, line.level)
                           ELSE acc,
                           Tail(lines))

\* parallel_log_analyser.py lines 14-23 (base_log_analyser.py lines 9-18 are the
\* same text), for a file that open() does not raise on
analyze_log(file_path) == analyze_lines(Counter, FileSystem(file_path).lines)

\* base_log_analyser.py lines 32-33: the loop over log_files, from total_counts =
\* total.  The exception of open() is not caught and ends the script: raised says
\* whether it did, total_counts is the value the loop reached
RECURSIVE base_loop(_, _)
base_loop(total, lst) ==
    IF lst = << >> THEN [raised |-> FALSE, total_counts |-> total]
    ELSE IF Raises(Head(lst)) THEN [raised |-> TRUE, total_counts |-> total]
    ELSE base_loop(counter_iadd(total, analyze_log(Head(lst))), Tail(lst))

\* base_log_analyser.py lines 30-33
base_total_counts(lst) == base_loop(Counter, lst)

\* lines 63-64 of parallel_log_analyser.py, lines 39-40 of base_log_analyser.py
ResultLines(total) == [level \in {"DEBUG", "ERROR", "INFO", "WARN"} |-> Get(total, level)]

\* base_log_analyser.py lines 36-43: the result lines the script prints, none
\* when the loop raised
base_output(lst) ==
    IF base_total_counts(lst).raised THEN << >>
    ELSE ResultLines(base_total_counts(lst).total_counts)

\* lst[start:end] of Python, for start, end >= 0
PySlice(lst, start, end) ==
    LET s == IF start < Len(lst) THEN start ELSE Len(lst)
        e == IF end < Len(lst) THEN end ELSE Len(lst)
    IN  IF e <= s THEN << >> ELSE [j \in 1..(e - s) |-> lst[s + j]]

\* chunk_size that rounds down
chunk_size_floor(num_files, n) == num_files \div (n - 1)

\* line 47
chunk_size(num_files, n) == (num_files + n - 2) \div (n - 1)

\* lines 49-51
files_for_worker(lst, n, i) ==
    LET start_idx == (i - 1) * chunk_size(Len(lst), n)
        end_idx == IF start_idx + chunk_size(Len(lst), n) < Len(lst)
                   THEN start_idx + chunk_size(Len(lst), n)
                   ELSE Len(lst)
    IN  PySlice(lst, start_idx, end_idx)

\* the t1.py variables of a run of stage 1
T1Idle ==
    /\ input_arg = [txt |-> FALSE, hasN |-> FALSE, name |-> 0]
    /\ count = 0
    /\ no_seq = TRUE
    /\ manifest = NoFile
    /\ file_list = << >>
    /\ assignments = << >>
    /\ r = 0
    /\ my_files = << >>
    /\ seq_counts = << >>
    /\ master_counts = Counter
    /\ assigned = << >>
    /\ counts = << >>
    /\ idx = << >>
    /\ chan11 = << >>
    /\ chan22 = << >>
    /\ arrived = {}
    /\ stderr = {}
    /\ report = << >>
    /\ sent = << >>
    /\ received = {}
    /\ folded = << >>
    /\ timer = "idle"
    /\ seq_time = << >>
    /\ parallel_time = << >>
    /\ timing = << >>

Stage1Init ==
    /\ size \in 1..MaxProcs
    /\ sendMode \in {"buffered", "sync"}
    /\ pc = [p \in Ranks |-> IF p = 0 THEN "list" ELSE "recv"]
    /\ log_dir \in Listings
    /\ log_files = << >>
    /\ total_counts = Counter
    /\ next_i = 0
    /\ files = [w \in Workers |-> << >>]
    /\ partial_counts = [w \in Workers |-> Counter]
    /\ pos = [p \in Ranks |-> 0]
    /\ to_worker = [w \in Workers |-> << >>]
    /\ to_master = [w \in Workers |-> << >>]
    /\ dispatched = [w \in Workers |-> << >>]
    /\ totals = << >>
    /\ T1Idle

(***************************************************************************)
(* Rank 0, parallel_log_analyser.py lines 33-68.                           *)
(***************************************************************************)
\* lines 34-47: the listing, the empty total, and the branch on size
Stage1List ==
    /\ pc[0] = "list"
    /\ log_files' = SelectSeq(log_dir, EndsWithLog)
    /\ total_counts' = Counter
    /\ next_i' = 1
    /\ pc' = [pc EXCEPT ![0] = IF size = 1 THEN "alone" ELSE "send"]
    /\ UNCHANGED <<size, sendMode, log_dir, files, partial_counts, pos, to_worker,
                   to_master, dispatched, totals, t1_vars>>

\* lines 44-45: one iteration of the loop of a run with a single process; the
\* exception of open() is not caught and ends rank 0
Stage1Alone ==
    /\ pc[0] = "alone"
    /\ pos[0] < Len(log_files)
    /\ IF Raises(log_files[pos[0] + 1])
       THEN /\ pc' = [pc EXCEPT ![0] = "raised"]
            /\ UNCHANGED <<total_counts, pos>>
       ELSE /\ total_counts' = counter_iadd(total_counts, analyze_log(log_files[pos[0] + 1]))
            /\ pos' = [pos EXCEPT ![0] = @ + 1]
            /\ pc' = pc
    /\ UNCHANGED <<size, sendMode, log_dir, log_files, next_i, files, partial_counts,
                   to_worker, to_master, dispatched, totals, t1_vars>>

\* lines 48-52: one iteration of the send loop
Stage1Send ==
    /\ pc[0] = "send"
    /\ next_i < size
    /\ to_worker' = [to_worker EXCEPT ![next_i] = Append(@, files_for_worker(log_files, size, next_i))]
    /\ dispatched' = [dispatched EXCEPT ![next_i] = Append(@, files_for_worker(log_files, size, next_i))]
    /\ IF sendMode = "sync"
       THEN /\ pc' = [pc EXCEPT ![0] = "sendwait"]
            /\ next_i' = next_i
       ELSE /\ pc' = pc
            /\ next_i' = next_i + 1
    /\ UNCHANGED <<size, sendMode, log_dir, log_files, total_counts, files,
                   partial_counts, pos, to_master, totals, t1_vars>>

\* line 52 under a synchronous send: comm.send returns once the worker has received
Stage1SendDone ==
    /\ pc[0] = "sendwait"
    /\ to_worker[next_i] = << >>
    /\ next_i' = next_i + 1
    /\ pc' = [pc EXCEPT ![0] = "send"]
    /\ UNCHANGED <<size, sendMode, log_dir, log_files, total_counts, files,
                   partial_counts, pos, to_worker, to_master, dispatched, totals, t1_vars>>

\* line 54: the send loop is over, the receive loop starts at i = 1
Stage1SendLoopEnd ==
    /\ pc[0] = "send"
    /\ next_i >= size
    /\ next_i' = 1
    /\ pc' = [pc EXCEPT ![0] = "collect"]
    /\ UNCHANGED <<size, sendMode, log_dir, log_files, total_counts, files,
                   partial_counts, pos, to_worker, to_master, dispatched, totals, t1_vars>>

\* lines 55-56: comm.recv(source=i) blocks until worker i has sent
Stage1Recv ==
    /\ pc[0] = "collect"
    /\ next_i < size
    /\ to_master[next_i] # << >>
    /\ total_counts' = counter_iadd(total_counts, Head(to_master[next_i]))
    /\ to_master' = [to_master EXCEPT ![next_i] = Tail(@)]
    /\ next_i' = next_i + 1
    /\ UNCHANGED <<size, sendMode, pc, log_dir, log_files, files, partial_counts, pos,
                   to_worker, dispatched, totals, t1_vars>>

\* lines 58-68: the loop of either branch is over, the results are printed
Stage1Report ==
    /\ \/ pc[0] = "alone" /\ pos[0] >= Len(log_files)
       \/ pc[0] = "collect" /\ next_i >= size
    /\ totals' = ResultLines(total_counts)
    /\ pc' = [pc EXCEPT ![0] = "done"]
    /\ UNCHANGED <<size, sendMode, log_dir, log_files, total_counts, next_i, files,
                   partial_counts, pos, to_worker, to_master, dispatched, t1_vars>>

(***************************************************************************)
(* A worker, parallel_log_analyser.py lines 70-75.                         *)
(***************************************************************************)
\* lines 71-72
Stage1WorkerRecv(w) ==
    /\ pc[w] = "recv"
    /\ to_worker[w] # << >>
    /\ files' = [files EXCEPT ![w] = Head(to_worker[w])]
    /\ to_worker' = [to_worker EXCEPT ![w] = Tail(@)]
    /\ partial_counts' = [partial_counts EXCEPT ![w] = Counter]
    /\ pc' = [pc EXCEPT ![w] = "analyse"]
    /\ UNCHANGED <<size, sendMode, log_dir, log_files, total_counts, next_i, pos,
                   to_master, dispatched, totals, t1_vars>>

\* lines 73-74: one iteration of the loop; the exception of open() is not caught
\* and ends the worker before line 75
Stage1WorkerAnalyse(w) ==
    /\ pc[w] = "analyse"
    /\ pos[w] < Len(files[w])
    /\ IF Raises(files[w][pos[w] + 1])
       THEN /\ pc' = [pc EXCEPT ![w] = "raised"]
            /\ UNCHANGED <<partial_counts, pos>>
       ELSE /\ partial_counts' = [partial_counts EXCEPT
                                    ![w] = counter_iadd(@, analyze_log(files[w][pos[w] + 1]))]
            /\ pos' = [pos EXCEPT ![w] = @ + 1]
            /\ pc' = pc
    /\ UNCHANGED <<size, sendMode, log_dir, log_files, total_counts, next_i, files,
                   to_worker, to_master, dispatched, totals, t1_vars>>

\* line 75: comm.send(dict(partial_counts), dest=0)
Stage1WorkerSend(w) ==
    /\ pc[w] = "analyse"
    /\ pos[w] >= Len(files[w])
    /\ to_master' = [to_master EXCEPT ![w] = Append(@, partial_counts[w])]
    /\ pc' = [pc EXCEPT ![w] = IF sendMode = "sync" THEN "sending" ELSE "done"]
    /\ UNCHANGED <<size, sendMode, log_dir, log_files, total_counts, next_i, files,
                   partial_counts, pos, to_worker, dispatched, totals, t1_vars>>

\* line 75 under a synchronous send: comm.send returns once rank 0 has received
Stage1WorkerSendDone(w) ==
    /\ pc[w] = "sending"
    /\ to_master[w] = << >>
    /\ pc' = [pc EXCEPT ![w] = "done"]
    /\ UNCHANGED <<size, sendMode, log_dir, log_files, total_counts, next_i, files,
                   partial_counts, pos, to_worker, to_master, dispatched, totals, t1_vars>>

Stage1Next ==
    \/ Stage1List
    \/ Stage1Alone
    \/ Stage1Send
    \/ Stage1SendDone
    \/ Stage1SendLoopEnd
    \/ Stage1Recv
    \/ Stage1Report
    \/ \E w \in Workers : Stage1WorkerRecv(w)
    \/ \E w \in Workers : Stage1WorkerAnalyse(w)
    \/ \E w \in Workers : Stage1WorkerSend(w)
    \/ \E w \in Workers : Stage1WorkerSendDone(w)

Stage1Spec == Stage1Init /\ [][Stage1Next]_vars

(***************************************************************************)
(* Helpers of the stage-1 properties.                                      *)
(***************************************************************************)
\* the .log files of the directory, as both programs list them
LogFilesOf(dir) == SelectSeq(dir, EndsWithLog)

AllReadable(lst) == \A i \in DOMAIN lst : ~Raises(lst[i])

\* the send loop of rank 0 is over
Stage1Dispatched == size >= 2 /\ pc[0] \in {"collect", "done"}

\* the slices rank 0 sent, in the order of the workers 1..size-1
RECURSIVE SlicesUpTo(_)
SlicesUpTo(w) == IF w = 0 THEN << >> ELSE SlicesUpTo(w - 1) \o Flatten(dispatched[w])

(***************************************************************************)
(* C18: the stage-1 analyser equals the sequential base.  For every number *)
(* of processes and every directory: once the send loop is over, each      *)
(* worker was sent one slice and the slices of workers 1..size-1, put end  *)
(* to end, are the list of log files, so that every file is in exactly one *)
(* slice; when every log file is readable, the result lines rank 0 prints  *)
(* are those base_log_analyser.py prints for the same files; and with two  *)
(* or more processes rank 0 analyses no file.                              *)
(***************************************************************************)
C18_Stage1EqualsBase ==
    /\ Stage1Dispatched =>
          /\ \A w \in Workers : Len(dispatched[w]) = 1
          /\ SlicesUpTo(size - 1) = log_files
    /\ (pc[0] = "done" /\ AllReadable(LogFilesOf(log_dir))) =>
          /\ ~base_total_counts(LogFilesOf(log_dir)).raised
          /\ totals = base_output(LogFilesOf(log_dir))
    /\ size >= 2 => pos[0] = 0 /\ pc[0] # "alone"

\* three readable log files, one of them without lines, listed out of order
\* around a file that is not a log, were analysed by two workers
C18_Witness ==
    /\ pc[0] = "done"
    /\ size = 3
    /\ log_dir = <<3, 0, 4, 1>>
    /\ dispatched[1] = <<(<<3, 4>>)>>
    /\ dispatched[2] = <<(<<1>>)>>
    /\ totals = [level \in LOG_LEVELS |->
                    CASE level = "ERROR" -> 3 [] level = "INFO" -> 3 [] OTHER -> 1]

(***************************************************************************)
(* C19: even distribution in parallel_log_analyser.py.  For every number   *)
(* of log files and every size >= 2, once the send loop is over the        *)
(* lengths of the slices of any two workers differ by at most 1.           *)
(***************************************************************************)
C19_EvenDistribution ==
    Stage1Dispatched =>
        \A v, w \in Workers :
            Len(Flatten(dispatched[v])) - Len(Flatten(dispatched[w])) <= 1

(***************************************************************************)
(* C20: a per-file failure does not abort a worker of                      *)
(* parallel_log_analyser.py.  No worker ends on a file it cannot read: a   *)
(* worker that has got past its loop has gone through its whole            *)
(* assignment, and a worker is never ended by the exception of open().     *)
(***************************************************************************)
C20_UnreadableFileDoesNotAbortWorker ==
    \A w \in Workers :
        /\ pc[w] # "raised"
        /\ pc[w] \in {"sending", "done"} => pos[w] = Len(files[w])

====
